---------------------------- MODULE Spec2Model ----------------------------
(***************************************************************************)
(* Model of the TenUp search proxy (api/index.py): the in-process result   *)
(* cache, the credential store (token file, cookie files, environment      *)
(* overrides) and the fallback chain of search_tenup / _perform_search     *)
(* (mobile API, token refresh, web AJAX scraper, headless cookie refresh). *)
(* Several requests run concurrently on one asyncio loop: a request keeps  *)
(* the processor between two awaits, so every action below is one          *)
(* synchronous stretch of a handler from one await to the next.            *)
(***************************************************************************)
EXTENDS Integers, Sequences, FiniteSets, TLC

\* ------------------------------------------------------------------------
\* Program constants
\* ------------------------------------------------------------------------
CACHE_TTL == 3600

CACHE_MAX_ENTRIES == 500

NEGOTIATE_ITERATIONS == 5

max_pages == 10

\* ------------------------------------------------------------------------
\* Bounds of the model
\* ------------------------------------------------------------------------
\* The clock advances MaxTicks times at most.
MaxTicks == 2

\* The instants of the model clock lie UpstreamSeconds after every multiple
\* of CACHE_TTL and on it: 0, 20, 3600, 3620, ...
UpstreamSeconds == 20

\* The tasks that serve requests; a task serves one request after another.
Requests == {1, 2}

None == "None"

\* the time, in seconds, at the k-th instant of the clock
TimeAt(k) == (k \div 2) * CACHE_TTL + (k % 2) * UpstreamSeconds

\* ------------------------------------------------------------------------
\* Error messages and HTTP statuses
\* ------------------------------------------------------------------------
MsgQueueItRedirect == "Queue-it redirection detected; cookies invalid or expired."

MsgQueueItPage == "Queue-it page detected; cookies invalid or expired."

MsgInaccessible == "TenUp inaccessible. Snippet"

MsgTransport == "httpx error"

MsgVercel == "Playwright not supported on Vercel. Please set 'TENUP_COOKIE' env var."

MsgNoCookies == "Playwright did not return any cookies."

MsgBrowser == "playwright error"

\* ------------------------------------------------------------------------
\* Dictionaries: a dict is a function whose domain is the set of its keys
\* ------------------------------------------------------------------------
Get(d, k) == IF k \in DOMAIN d THEN d[k] ELSE None

\* truthiness of an optional string: None and "" are falsy
Truthy(v) == v # None /\ v # ""

DictSet(d, k, v) == [x \in DOMAIN d \cup {k} |-> IF x = k THEN v ELSE d[x]]

DictDel(d, k) == [x \in DOMAIN d \ {k} |-> d[x]]

EmptyDict == [x \in {} |-> None]

\* ------------------------------------------------------------------------
\* get_form_state: the form-state negotiator.
\* session.root is the outcome of the priming GET of the site root and
\* session.pages[i] the kind of response the i-th GET of the search page
\* receives; a GET the script does not list receives an ordinary page
\* without tokens.
\* ------------------------------------------------------------------------
PageKinds == {"redirect_queueit", "redirect", "page_queueit", "js_redirect",
              "form", "other", "transport_error"}

PageAt(session, i) == IF i <= Len(session.pages) THEN session.pages[i] ELSE "other"

\* (a redirect to the anti-bot host followed like any other redirect)
RECURSIVE get_form_state_loop_follow(_, _)
get_form_state_loop_follow(session, i) ==
    IF i > NEGOTIATE_ITERATIONS
    THEN [ok |-> FALSE, err |-> MsgInaccessible, gets |-> NEGOTIATE_ITERATIONS]
    ELSE LET kind == PageAt(session, i) IN
         CASE kind = "transport_error" -> [ok |-> FALSE, err |-> MsgTransport, gets |-> i]
           [] kind = "redirect_queueit" -> get_form_state_loop_follow(session, i + 1)
           [] kind = "redirect" -> get_form_state_loop_follow(session, i + 1)
           [] kind = "page_queueit" -> [ok |-> FALSE, err |-> MsgQueueItPage, gets |-> i]
           [] kind = "js_redirect" -> get_form_state_loop_follow(session, i + 1)
           [] kind = "form" -> [ok |-> TRUE, form_build_id |-> session.form_build_id,
                                theme_token |-> session.theme_token, gets |-> i]
           [] OTHER -> get_form_state_loop_follow(session, i + 1)

RECURSIVE get_form_state_loop(_, _)
get_form_state_loop(session, i) ==
    IF i > NEGOTIATE_ITERATIONS
    THEN [ok |-> FALSE, err |-> MsgInaccessible, gets |-> NEGOTIATE_ITERATIONS]
    ELSE LET kind == PageAt(session, i) IN
         CASE kind = "transport_error" -> [ok |-> FALSE, err |-> MsgTransport, gets |-> i]
           [] kind = "redirect_queueit" -> [ok |-> FALSE, err |-> MsgQueueItRedirect, gets |-> i]
           [] kind = "redirect" -> get_form_state_loop(session, i + 1)
           [] kind = "page_queueit" -> [ok |-> FALSE, err |-> MsgQueueItPage, gets |-> i]
           [] kind = "js_redirect" -> get_form_state_loop(session, i + 1)
           [] kind = "form" -> [ok |-> TRUE, form_build_id |-> session.form_build_id,
                                theme_token |-> session.theme_token, gets |-> i]
           [] OTHER -> get_form_state_loop(session, i + 1)

get_form_state(session) ==
    IF session.root = "transport_error"
    THEN [ok |-> FALSE, err |-> MsgTransport, gets |-> 0]
    ELSE get_form_state_loop(session, 1)

\* ------------------------------------------------------------------------
\* fetch_web_ajax: the paginated AJAX scraper.
\* ajax[n + 1] is the response to the POST of page n:
\*   [status |-> "ok" | "http_error" | "bad_json", cmds |-> directives]
\* a directive is a dict with "command" and, for "settings", optionally
\* "theme_token", and for "recherche_tournois_update", "nb_results" and
\* "items".  An item is a dict that may hold "originalId" and "id".
\* ------------------------------------------------------------------------
AjaxAt(ajax, n) == IF n + 1 <= Len(ajax) THEN ajax[n + 1]
                   ELSE [status |-> "ok", cmds |-> <<>>]

ItemId(item) ==
    IF Truthy(Get(item, "originalId")) THEN item["originalId"]
    ELSE IF Truthy(Get(item, "id")) THEN item["id"]
    ELSE ""

\* (every item appended, seen or not)
RECURSIVE AddItems_nodedup(_, _, _)
AddItems_nodedup(acc, items, k) ==
    IF k > Len(items) THEN acc
    ELSE LET item == items[k]
             item_id == ItemId(item)
         IN IF Truthy(item_id)
            THEN AddItems_nodedup([acc EXCEPT !.seen_ids = @ \cup {item_id},
                                              !.all_items = Append(@, item)], items, k + 1)
            ELSE AddItems_nodedup(acc, items, k + 1)

\* for item in items: if item_id and item_id not in seen_ids: add, append
RECURSIVE AddItems(_, _, _)
AddItems(acc, items, k) ==
    IF k > Len(items) THEN acc
    ELSE LET item == items[k]
             item_id == ItemId(item)
         IN IF Truthy(item_id) /\ item_id \notin acc.seen_ids
            THEN AddItems([acc EXCEPT !.seen_ids = @ \cup {item_id},
                                      !.all_items = Append(@, item)], items, k + 1)
            ELSE AddItems(acc, items, k + 1)

\* for cmd in data: ...   (first is TRUE on page 0, where nb_results is read)
RECURSIVE ApplyCmds(_, _, _, _)
ApplyCmds(acc, cmds, k, first) ==
    IF k > Len(cmds) THEN acc
    ELSE LET cmd == cmds[k]
             a1 == IF Get(cmd, "command") = "settings"
                   THEN [acc EXCEPT !.current_theme_token =
                            IF "theme_token" \in DOMAIN cmd THEN cmd["theme_token"] ELSE @]
                   ELSE acc
             a2 == IF Get(cmd, "command") = "recherche_tournois_update"
                   THEN AddItems(IF first
                                 THEN [a1 EXCEPT !.total_from_api =
                                          IF "nb_results" \in DOMAIN cmd
                                          THEN cmd["nb_results"] ELSE 0]
                                 ELSE a1,
                                 IF "items" \in DOMAIN cmd THEN cmd["items"] ELSE <<>>, 1)
                   ELSE a1
         IN ApplyCmds(a2, cmds, k + 1, first)

\* the submit fields of the payload: page 0 carries "op" and "submit_main";
\* a later page adds "submit_page" and pops the two
Fields(acc, trigger) ==
    IF trigger = "submit_page"
    THEN (acc.fields \cup {"submit_page"}) \ {"submit_main", "op"}
    ELSE acc.fields

\* (every page submitted with the theme token of the negotiation)
Post_stale(acc, page_num, trigger) ==
    [acc EXCEPT !.fields = Fields(acc, trigger),
                !.posts = Append(@, [page |-> page_num, trigger |-> trigger,
                                     fields |-> Fields(acc, trigger),
                                     theme_token |-> acc.theme_token])]

Post(acc, page_num, trigger) ==
    [acc EXCEPT !.fields = Fields(acc, trigger),
                !.posts = Append(@, [page |-> page_num, trigger |-> trigger,
                                     fields |-> Fields(acc, trigger),
                                     theme_token |-> IF page_num = 0 THEN acc.theme_token
                                                     ELSE acc.current_theme_token])]

\* (a pagination without the page cap)
RECURSIVE Paginate_nocap(_, _, _)
Paginate_nocap(acc, ajax, page_num) ==
    IF Cardinality(acc.seen_ids) >= acc.total_from_api THEN acc
    ELSE LET sent == Post(acc, page_num, "submit_page")
             resp == AjaxAt(ajax, page_num)
         IN IF resp.status # "ok" THEN sent
            ELSE LET after == ApplyCmds(sent, resp.cmds, 1, FALSE)
                 IN IF Len(after.all_items) - Len(sent.all_items) = 0 THEN after
                    ELSE Paginate_nocap(after, ajax, page_num + 1)

\* (a failure on a later page that discards the items collected)
RECURSIVE Paginate_discard(_, _, _)
Paginate_discard(acc, ajax, page_num) ==
    IF page_num >= max_pages THEN acc
    ELSE IF Cardinality(acc.seen_ids) >= acc.total_from_api THEN acc
    ELSE LET sent == Post(acc, page_num, "submit_page")
             resp == AjaxAt(ajax, page_num)
         IN IF resp.status # "ok" THEN [sent EXCEPT !.all_items = <<>>]
            ELSE LET after == ApplyCmds(sent, resp.cmds, 1, FALSE)
                 IN IF Len(after.all_items) - Len(sent.all_items) = 0 THEN after
                    ELSE Paginate_discard(after, ajax, page_num + 1)

\* for page_num in range(1, max_pages): ...
RECURSIVE Paginate(_, _, _)
Paginate(acc, ajax, page_num) ==
    IF page_num >= max_pages THEN acc
    ELSE IF Cardinality(acc.seen_ids) >= acc.total_from_api THEN acc
    ELSE LET sent == Post(acc, page_num, "submit_page")
             resp == AjaxAt(ajax, page_num)
         IN IF resp.status # "ok" THEN sent
            ELSE LET after == ApplyCmds(sent, resp.cmds, 1, FALSE)
                 IN IF Len(after.all_items) - Len(sent.all_items) = 0 THEN after
                    ELSE Paginate(after, ajax, page_num + 1)

WebResult(acc) ==
    [count |-> Len(acc.all_items), items |-> acc.all_items,
     source |-> "tenup_web", total_api |-> acc.total_from_api]

fetch_web_ajax(cookie_header, session, ajax) ==
    LET neg == get_form_state(session) IN
    IF ~neg.ok THEN [ok |-> FALSE, err |-> neg.err, gets |-> neg.gets, posts |-> <<>>]
    ELSE LET acc0 == [all_items |-> <<>>, seen_ids |-> {}, total_from_api |-> 0,
                      theme_token |-> neg.theme_token,
                      current_theme_token |-> neg.theme_token,
                      fields |-> {"op", "submit_main"}, posts |-> <<>>]
             sent0 == Post(acc0, 0, "submit_main")
             resp0 == AjaxAt(ajax, 0)
         IN IF resp0.status = "http_error"
            THEN [ok |-> FALSE, err |-> MsgTransport, gets |-> neg.gets, posts |-> sent0.posts]
            ELSE LET acc1 == IF resp0.status = "ok"
                             THEN ApplyCmds(sent0, resp0.cmds, 1, TRUE)
                             ELSE sent0
                     fin == Paginate(acc1, ajax, 1)
                 IN [ok |-> TRUE, result |-> WebResult(fin), gets |-> neg.gets,
                     posts |-> fin.posts]

\* ------------------------------------------------------------------------
\* normalize_dates
\* ------------------------------------------------------------------------
\* it.get(k) of a date object is truthy: the key is there and its value is
\* not empty (a null value is modelled like the empty object)
Filled(it, k) == k \in DOMAIN it /\ it[k] # EmptyDict

\* (a canonical date written over the one the item has)
normalize_item_overwrite(it) ==
    LET a == IF Truthy(Get(it, "startDate"))
             THEN DictSet(it, "dateDebut", [date |-> it["startDate"]]) ELSE it
    IN IF Truthy(Get(a, "endDate"))
       THEN DictSet(a, "dateFin", [date |-> a["endDate"]]) ELSE a

normalize_item(it) ==
    LET a == IF Truthy(Get(it, "startDate")) /\ ~Filled(it, "dateDebut")
             THEN DictSet(it, "dateDebut", [date |-> it["startDate"]]) ELSE it
    IN IF Truthy(Get(a, "endDate")) /\ ~Filled(a, "dateFin")
       THEN DictSet(a, "dateFin", [date |-> a["endDate"]]) ELSE a

normalize_dates(items) == [i \in 1..Len(items) |-> normalize_item(items[i])]

\* ------------------------------------------------------------------------
\* The cache key of search_tenup.  Coordinates are in units of 1e-5 degree;
\* round(x, 4) keeps units of 1e-4 degree.  A coordinate whose fifth decimal
\* is 5 and last is not an exact tie in binary floating point (it rounds as
\* the nearest double lies); the inputs of the model hold no such coordinate.
\* ------------------------------------------------------------------------
Round4(x) ==
    LET lo == x \div 10
        rem == x % 10
    IN IF rem < 5 THEN lo
       ELSE IF rem > 5 THEN lo + 1
       ELSE IF lo % 2 = 0 THEN lo ELSE lo + 1

\* f"{v}" of v = round(x, 4), in units of 1e-4 degree: a negative x that
\* rounds to zero gives the float -0.0, which prints with its sign
FormatRounded(x) == IF x < 0 /\ Round4(x) = 0 THEN "-0" ELSE ToString(Round4(x))

cache_key(qry) ==
    "de:" \o qry.date_end \o "|ds:" \o qry.date_start \o "|et:" \o qry.etype
    \o "|lat:" \o FormatRounded(qry.lat) \o "|lng:" \o FormatRounded(qry.lng)
    \o "|lvl:" \o qry.level \o "|q:" \o qry.q \o "|rayon:" \o ToString(qry.rayon_km)

\* ------------------------------------------------------------------------
\* The credential store: files and environment overrides.
\* A file is [state |-> "absent" | "unreadable" | "ok", ...]; an environment
\* variable is [state |-> "absent" | "ok", ...].
\* ------------------------------------------------------------------------
NoToken == EmptyDict

Absent == [state |-> "absent"]

TokenText(data) == [state |-> "ok", data |-> data]

\* raw cookie text: an optional "Cookie:" prefix and the header after it
CookieText(prefix, body) == [state |-> "ok", prefix |-> prefix, body |-> body]

Bundle(access_token, refresh_token) ==
    [access_token |-> access_token, refresh_token |-> refresh_token]

BundleNoRefresh(access_token) == [access_token |-> access_token]

\* (TENUP_TOKEN first, then the token file)
load_token_file_envfirst(file, env) ==
    IF env.state = "ok" THEN env.data
    ELSE IF file.state = "ok" THEN file.data
    ELSE NoToken

\* load_token_file: the token file first, then TENUP_TOKEN
load_token_file(file, env) ==
    IF file.state = "ok" THEN file.data
    ELSE IF env.state = "ok" THEN env.data
    ELSE NoToken

\* raw.strip(); drop a leading "cookie:"
StripCookie(text) == text.body

\* load_cookie_header: TENUP_COOKIE, then cookie.txt, then cookies.txt
load_cookie_header(env, file, alt) ==
    IF env.state = "ok" THEN StripCookie(env)
    ELSE IF file.state # "absent"
         THEN IF file.state = "ok" THEN StripCookie(file) ELSE None
    ELSE IF alt.state # "absent"
         THEN IF alt.state = "ok" THEN StripCookie(alt) ELSE None
    ELSE None

\* (a save that writes nothing)
save_token_file_noop(file, data, io) == file

\* save_token_file: errors are swallowed; a write that fails after the file
\* was opened for writing leaves a truncated file
save_token_file(file, data, io) ==
    CASE io = "ok" -> TokenText(data)
      [] io = "open_failed" -> file
      [] OTHER -> [state |-> "unreadable"]

SaveOutcomes == {"ok", "open_failed", "write_failed"}

\* ------------------------------------------------------------------------
\* Inputs of the model
\* ------------------------------------------------------------------------
Query(lat, q) ==
    [lat |-> lat, lng |-> 235220, rayon_km |-> 100, q |-> q,
     date_start |-> "2026-01-15", date_end |-> "2026-04-15", level |-> "", etype |-> ""]

Queries == {Query(4885661, "Paris"), Query(4885661, "Lyon")}

MobileItem(id) == [id |-> id, startDate |-> "2026-03-01"]

MobileItemLists == {<<MobileItem("m1")>>}

MobileOutcomes == {"ok", "401", "error"}

RefreshOutcomes == {"ok", "error"}

\* the bundle the identity provider returns to request r
NewToken(r) == Bundle("access" \o ToString(r), "refresh" \o ToString(r))

WebItem(id) == [originalId |-> id]

Session(pages) == [root |-> "ok", pages |-> pages,
                   form_build_id |-> "form-1", theme_token |-> "theme-1"]

Sessions == {Session(<<"form">>), Session(<<"redirect", "form">>),
             Session(<<"redirect_queueit">>), Session(<<"page_queueit">>),
             Session(<<"other", "other", "other", "other", "other">>)}

Update(nb, items) == [command |-> "recherche_tournois_update",
                      nb_results |-> nb, items |-> items]

AjaxScripts == {<<[status |-> "ok", cmds |-> <<Update(1, <<WebItem("w1")>>)>>]>>,
                <<[status |-> "http_error", cmds |-> <<>>]>>}

HeadlessOutcomes == {"ok", "no_cookies", "browser_error", "persist_error"}

FreshCookie == "pw=1"

\* ------------------------------------------------------------------------
\* State
\* ------------------------------------------------------------------------
VARIABLES
    INTERNAL_CACHE,     \* cache key -> [data, expiry]
    token_file,         \* TOKEN_PATH
    env_token,          \* TENUP_TOKEN
    env_cookie,         \* TENUP_COOKIE
    cookie_file,        \* COOKIE_PATH (cookie.txt)
    cookie_file_alt,    \* COOKIE_PATH_ALT (cookies.txt)
    vercel,             \* VERCEL == "1"
    clock,              \* datetime.now().timestamp(), in ticks
    task                \* per request: the locals of search_tenup/_perform_search,
                        \* whether its arrival deleted an expired entry (purged),
                        \* the log of its calls (calls, outcomes, saved), the items
                        \* the mobile API delivered to it (delivered) and, of
                        \* its last web fetch that submitted a page, the responses
                        \* the site gave (ajax) and the pages submitted (posts);
                        \* where the negotiation is followed, the responses to
                        \* the GETs of the search page (pages) and what
                        \* get_form_state made of them (form_state)

vars == <<INTERNAL_CACHE, token_file, env_token, env_cookie, cookie_file,
          cookie_file_alt, vercel, clock, task>>

store == <<token_file, env_token, env_cookie, cookie_file, cookie_file_alt, vercel>>

NoResult == EmptyDict

IdleTask ==
    [pc |-> "idle", qry |-> Query(0, ""), cache_key |-> "", now |-> 0, hit |-> FALSE,
     purged |-> FALSE,
     token_data |-> NoToken, cookie_header |-> None, new_tok |-> NoToken,
     origin |-> "", calls |-> <<>>, outcomes |-> <<>>, saved |-> "",
     delivered |-> <<>>,
     ajax |-> <<>>, posts |-> <<>>, pages |-> <<>>, form_state |-> NoResult,
     result |-> NoResult, raised |-> 0, detail |-> "", status |-> 0]

Call(op, arg) == [op |-> op, arg |-> arg]

Issue(t, pc, op, arg) == [t EXCEPT !.pc = pc, !.calls = Append(@, Call(op, arg))]

Saw(t, outcome) == [t EXCEPT !.outcomes = Append(@, outcome)]

TokenInit == {Absent, TokenText(Bundle("access0", "refresh0")),
              TokenText(BundleNoRefresh("access0"))}

Init ==
    /\ INTERNAL_CACHE = EmptyDict
    /\ token_file \in TokenInit
    /\ env_token \in {Absent, TokenText(Bundle("accessE", "refreshE"))}
    /\ env_cookie \in {Absent, CookieText(TRUE, "env=1")}
    /\ cookie_file \in {Absent, CookieText(FALSE, "file=1")}
    /\ cookie_file_alt \in {Absent}
    /\ vercel \in BOOLEAN
    /\ clock = 0
    /\ task = [r \in Requests |-> IdleTask]

\* ------------------------------------------------------------------------
\* search_tenup: the parts around the call of _perform_search
\* ------------------------------------------------------------------------
\* (the expiry test the wrong way round)
CacheHit_inverted(cache, key, now) == key \in DOMAIN cache /\ now > cache[key].expiry

CacheHit(cache, key, now) == key \in DOMAIN cache /\ now < cache[key].expiry

\* (an expired entry left in place)
PurgeOnRead_keep(cache, key) == cache

\* del INTERNAL_CACHE[cache_key] for an expired entry
PurgeOnRead(cache, key) == IF key \in DOMAIN cache THEN DictDel(cache, key) ELSE cache

\* (a purge that empties a cache over the cap)
Evict_clear(cache, now) ==
    IF Cardinality(DOMAIN cache) > CACHE_MAX_ENTRIES THEN EmptyDict ELSE cache

\* if len(INTERNAL_CACHE) > 500: drop the entries with now > exp
Evict(cache, now) ==
    IF Cardinality(DOMAIN cache) > CACHE_MAX_ENTRIES
    THEN [k \in {x \in DOMAIN cache : ~(now > cache[x].expiry)} |-> cache[k]]
    ELSE cache

\* INTERNAL_CACHE[cache_key] = (result, now + CACHE_TTL)
\* (put_at records the time of the assignment; the program does not keep it)
CachePut(cache, key, result, now, put_at) ==
    DictSet(cache, key, [data |-> result, expiry |-> now + CACHE_TTL, put_at |-> put_at])

\* except Exception as e: raise HTTPException(status_code=500, ...)
SurfacedStatus(raised) == 500

\* The handler is over: its locals are gone; the fingerprint of the request,
\* the response and the log of its outbound calls remain.
Finished(t, pc) ==
    [IdleTask EXCEPT !.pc = pc, !.cache_key = t.cache_key, !.calls = t.calls,
                     !.outcomes = t.outcomes, !.saved = t.saved,
                     !.delivered = t.delivered, !.ajax = t.ajax, !.posts = t.posts,
                     !.pages = t.pages, !.form_state = t.form_state]

\* _perform_search returned result: store it and answer 200
Return(r, t, result) ==
    /\ INTERNAL_CACHE' = CachePut(INTERNAL_CACHE, t.cache_key, result, t.now,
                                  TimeAt(clock))
    /\ task' = [task EXCEPT ![r] = [Finished(t, "Done") EXCEPT !.result = result,
                                                               !.status = 200]]

\* (a failure that leaves an entry for the request's key in the cache)
Raise_put(r, t, raised, detail) ==
    /\ task' = [task EXCEPT ![r] = [Finished(t, "Failed") EXCEPT
                                        !.raised = raised, !.detail = detail,
                                        !.status = SurfacedStatus(raised)]]
    /\ INTERNAL_CACHE' = CachePut(INTERNAL_CACHE, t.cache_key, NoResult, t.now,
                                  TimeAt(clock))

\* _perform_search raised HTTPException(raised, detail)
Raise(r, t, raised, detail) ==
    /\ task' = [task EXCEPT ![r] = [Finished(t, "Failed") EXCEPT
                                        !.raised = raised, !.detail = detail,
                                        !.status = SurfacedStatus(raised)]]
    /\ UNCHANGED INTERNAL_CACHE

\* ------------------------------------------------------------------------
\* _perform_search: what runs up to the next await
\* ------------------------------------------------------------------------
\* if token_data and token_data.get("access_token")
HasAccessToken(token_data) == Truthy(Get(token_data, "access_token"))

\* (a refresh attempted without a refresh token)
ShouldRefresh_any401(status_code, refresh_token) == status_code = 401

\* if he.status_code == 401 and refresh_token
ShouldRefresh(status_code, refresh_token) == status_code = 401 /\ Truthy(refresh_token)

\* (every failure of the web fetch taken for the bot wall)
IsQueueItRedirection_any(msg) == TRUE

\* if "Queue-it redirection detected" in str(e)
IsQueueItRedirection(msg) == msg = MsgQueueItRedirect

\* the web tier: "if cookie_header: ..." else the last resort
WebTier(t) ==
    IF Truthy(t.cookie_header)
    THEN Issue(t, "WebSecondary", "fetch_web_ajax", t.cookie_header)
    ELSE Issue([t EXCEPT !.origin = "last_resort"], "HeadlessRefresh",
               "fetch_cookie_header_via_playwright", None)

\* (a failure of the mobile tier raised to the caller)
FallThrough_raise(t) ==
    [Finished(t, "Failed") EXCEPT !.raised = 500, !.detail = "mobile error",
                                  !.status = SurfacedStatus(500)]

\* (a failure of the mobile tier after which the request waits for nothing
\* that comes)
FallThrough_hang(t) == [t EXCEPT !.pc = "Hang"]

\* a failure in the mobile tier: "except ...: pass", on to the web tier
FallThrough(t) == WebTier(t)

\* the start of _perform_search, the credentials loaded
Start(t0) ==
    LET t == [t0 EXCEPT !.calls = @ \o <<Call("load_token_file", None),
                                         Call("load_cookie_header", None)>>]
    IN IF HasAccessToken(t.token_data)
       THEN Issue(t, "MobilePrimary", "fetch_mobile_api", t.token_data["access_token"])
       ELSE WebTier(t)

\* ------------------------------------------------------------------------
\* Actions
\* ------------------------------------------------------------------------
\* A request arrives: search_tenup up to its first await.
search_tenup(r, qry) ==
    /\ task[r].pc \in {"idle", "Done", "Failed"}
    /\ LET key == cache_key(qry)
           now == TimeAt(clock)
       IN IF CacheHit(INTERNAL_CACHE, key, now)
          THEN /\ task' = [task EXCEPT ![r] =
                              [IdleTask EXCEPT !.pc = "Done", !.hit = TRUE,
                                               !.cache_key = key,
                                               !.result = INTERNAL_CACHE[key].data,
                                               !.status = 200]]
               /\ UNCHANGED INTERNAL_CACHE
          ELSE /\ INTERNAL_CACHE' = Evict(PurgeOnRead(INTERNAL_CACHE, key), now)
               /\ task' = [task EXCEPT ![r] =
                              Start([IdleTask EXCEPT
                                        !.qry = qry, !.cache_key = key, !.now = now,
                                        !.purged = key \in DOMAIN INTERNAL_CACHE,
                                        !.token_data = load_token_file(token_file, env_token),
                                        !.cookie_header = load_cookie_header(env_cookie,
                                                              cookie_file, cookie_file_alt)])]
    /\ UNCHANGED <<store, clock>>

\* the log of a mobile fetch that returned items
Delivered_by(t, outcome, items) ==
    IF outcome = "ok" THEN [t EXCEPT !.delivered = items] ELSE t

\* The first fetch_mobile_api returns, the API delivering one of the given
\* lists of items.
MobilePrimaryOf(r, lists) ==
    /\ task[r].pc = "MobilePrimary"
    /\ \E outcome \in MobileOutcomes, items \in lists :
         LET t == Saw(Delivered_by(task[r], outcome, items), outcome)
             refresh_token == Get(t.token_data, "refresh_token")
         IN CASE outcome = "ok" ->
                   Return(r, t, [count |-> Len(items), items |-> normalize_dates(items),
                                 source |-> "mobile_api"])
              [] outcome = "401" /\ ShouldRefresh(401, refresh_token) ->
                   /\ task' = [task EXCEPT ![r] =
                                  Issue(t, "TokenRefresh", "refresh_access_token",
                                        refresh_token)]
                   /\ UNCHANGED INTERNAL_CACHE
              [] OTHER ->
                   /\ task' = [task EXCEPT ![r] = FallThrough(t)]
                   /\ UNCHANGED INTERNAL_CACHE
    /\ UNCHANGED <<store, clock>>

MobilePrimary(r) == MobilePrimaryOf(r, MobileItemLists)

\* refresh_access_token returns; on success save_token_file and the retry.
TokenRefresh(r) ==
    /\ task[r].pc = "TokenRefresh"
    /\ \E outcome \in RefreshOutcomes, io \in SaveOutcomes :
         LET t == Saw(task[r], outcome)
             new_tok == NewToken(r)
         IN IF outcome = "ok"
            THEN /\ token_file' = save_token_file(token_file, new_tok, io)
                 /\ task' = [task EXCEPT ![r] =
                                Issue(Issue([t EXCEPT !.new_tok = new_tok, !.saved = io],
                                            "TokenRefresh", "save_token_file", new_tok),
                                      "MobileRefreshRetry", "fetch_mobile_api",
                                      new_tok["access_token"])]
            ELSE /\ task' = [task EXCEPT ![r] = FallThrough(t)]
                 /\ UNCHANGED token_file
    /\ UNCHANGED <<INTERNAL_CACHE, env_token, env_cookie, cookie_file, cookie_file_alt,
                   vercel, clock>>

\* The retried fetch_mobile_api returns.
MobileRefreshRetry(r) ==
    /\ task[r].pc = "MobileRefreshRetry"
    /\ \E outcome \in MobileOutcomes, items \in MobileItemLists :
         LET t == Saw(Delivered_by(task[r], outcome, items), outcome)
         IN IF outcome = "ok"
            THEN Return(r, t, [count |-> Len(items), items |-> normalize_dates(items),
                               source |-> "mobile_api"])
            ELSE /\ task' = [task EXCEPT ![r] = FallThrough(t)]
                 /\ UNCHANGED INTERNAL_CACHE
    /\ UNCHANGED <<store, clock>>

\* the log of a web fetch that submitted a page
Fetched(t, web, ajax) ==
    IF web.posts # <<>> THEN [t EXCEPT !.ajax = ajax, !.posts = web.posts] ELSE t

\* The first fetch_web_ajax (with the loaded cookie) returns, the site having
\* answered by one of the given sessions and response scripts.
WebSecondaryReturns(r, t, web) ==
    IF web.ok THEN Return(r, t, web.result)
    ELSE IF IsQueueItRedirection(web.err)
    THEN /\ task' = [task EXCEPT ![r] =
                        Issue([t EXCEPT !.origin = "stale_cookie"],
                              "HeadlessRefresh",
                              "fetch_cookie_header_via_playwright", None)]
         /\ UNCHANGED INTERNAL_CACHE
    ELSE Raise(r, t, 500, "TenUp web error")

WebSecondaryOf(r, sessions, scripts) ==
    /\ task[r].pc = "WebSecondary"
    /\ \E session \in sessions, ajax \in scripts :
         LET web == fetch_web_ajax(task[r].cookie_header, session, ajax)
             t == Saw(Fetched(task[r], web, ajax), IF web.ok THEN "ok" ELSE web.err)
         IN WebSecondaryReturns(r, t, web)
    /\ UNCHANGED <<store, clock>>

\* the log of a negotiation
Negotiated(t, session) ==
    [t EXCEPT !.pages = session.pages, !.form_state = get_form_state(session)]

\* The first fetch_web_ajax returns, the negotiation followed.
WebSecondaryNegotiated(r, sessions, scripts) ==
    /\ task[r].pc = "WebSecondary"
    /\ \E session \in sessions, ajax \in scripts :
         LET web == fetch_web_ajax(task[r].cookie_header, session, ajax)
             t == Saw(Negotiated(Fetched(task[r], web, ajax), session),
                      IF web.ok THEN "ok" ELSE web.err)
         IN WebSecondaryReturns(r, t, web)
    /\ UNCHANGED <<store, clock>>

WebSecondary(r) == WebSecondaryOf(r, Sessions, AjaxScripts)

\* what the failure of the headless tier raises, by the place it was entered
HeadlessFailure(origin) ==
    IF origin = "stale_cookie"
    THEN [status |-> 500, detail |-> "TenUp web error"]
    ELSE [status |-> 502, detail |-> "API mobile indisponible et cookies headless echoues"]

\* fetch_cookie_header_via_playwright returns; on success the retry is issued.
HeadlessRefresh(r) ==
    /\ task[r].pc = "HeadlessRefresh"
    /\ \E outcome \in (IF vercel THEN {"unsupported"} ELSE HeadlessOutcomes) :
         LET t == Saw(task[r], outcome)
         IN IF outcome = "ok"
            THEN /\ cookie_file_alt' = CookieText(FALSE, FreshCookie)
                 /\ task' = [task EXCEPT ![r] =
                                Issue([t EXCEPT !.cookie_header = FreshCookie],
                                      "WebRetry", "fetch_web_ajax", FreshCookie)]
            ELSE /\ cookie_file_alt' = IF outcome = "persist_error"
                                       THEN [state |-> "unreadable"]
                                       ELSE cookie_file_alt
                 /\ task' = [task EXCEPT ![r] =
                                [Finished(t, "Failed") EXCEPT
                                    !.raised = HeadlessFailure(t.origin).status,
                                    !.detail = HeadlessFailure(t.origin).detail,
                                    !.status = SurfacedStatus(
                                                  HeadlessFailure(t.origin).status)]]
    /\ UNCHANGED <<INTERNAL_CACHE, token_file, env_token, env_cookie, cookie_file,
                   vercel, clock>>

\* (a retry that goes back to the headless refresh on a second bot wall)
WebRetry_again(r) ==
    /\ task[r].pc = "WebRetry"
    /\ \E session \in Sessions, ajax \in AjaxScripts :
         LET web == fetch_web_ajax(task[r].cookie_header, session, ajax)
             t == Saw(Fetched(task[r], web, ajax), IF web.ok THEN "ok" ELSE web.err)
         IN IF web.ok THEN Return(r, t, web.result)
            ELSE IF IsQueueItRedirection(web.err)
            THEN /\ task' = [task EXCEPT ![r] =
                                Issue(t, "HeadlessRefresh",
                                      "fetch_cookie_header_via_playwright", None)]
                 /\ UNCHANGED INTERNAL_CACHE
            ELSE Raise(r, t, HeadlessFailure(t.origin).status,
                       HeadlessFailure(t.origin).detail)
    /\ UNCHANGED <<store, clock>>

\* The fetch_web_ajax with the fresh cookies returns.
WebRetry(r) ==
    /\ task[r].pc = "WebRetry"
    /\ \E session \in Sessions, ajax \in AjaxScripts :
         LET web == fetch_web_ajax(task[r].cookie_header, session, ajax)
             t == Saw(Fetched(task[r], web, ajax), IF web.ok THEN "ok" ELSE web.err)
         IN IF web.ok THEN Return(r, t, web.result)
            ELSE Raise(r, t, HeadlessFailure(t.origin).status,
                       HeadlessFailure(t.origin).detail)
    /\ UNCHANGED <<store, clock>>

\* Time passes.
Tick ==
    /\ clock < MaxTicks
    /\ clock' = clock + 1
    /\ UNCHANGED <<INTERNAL_CACHE, store, task>>

Serve(r) ==
    \/ \E qry \in Queries : search_tenup(r, qry)
    \/ MobilePrimary(r)
    \/ TokenRefresh(r)
    \/ MobileRefreshRetry(r)
    \/ WebSecondary(r)
    \/ HeadlessRefresh(r)
    \/ WebRetry(r)

\* Requests served one after another, under every credential store of Init.
Next == Serve(1) \/ Tick

Spec == Init /\ [][Next]_vars

\* Every outbound call returns in the end, with success or with failure (each
\* carries a timeout): a request that waits for one goes on.
CallsReturn ==
    \A r \in Requests :
        /\ WF_vars(MobilePrimary(r))
        /\ WF_vars(TokenRefresh(r))
        /\ WF_vars(MobileRefreshRetry(r))
        /\ WF_vars(WebSecondary(r))
        /\ WF_vars(HeadlessRefresh(r))
        /\ WF_vars(WebRetry(r))

\* (requests served one after another at one instant of the clock: whether a
\* request ends does not depend on the time)
NextLive == Serve(1)

SpecLive == Init /\ [][NextLive]_vars /\ CallsReturn

\* Two requests for the same place in flight at once, under one credential
\* store: a token file with a refresh token, no cookie, no browser.
InitConcurrent ==
    /\ Init
    /\ token_file = TokenText(Bundle("access0", "refresh0"))
    /\ env_token = Absent
    /\ env_cookie = Absent
    /\ cookie_file = Absent
    /\ vercel

\* (with this store the web fetch is never issued: the steps of Serve(r) that
\* can be taken are these; the requests are for one place)
NextConcurrent ==
    \/ \E r \in Requests :
          \/ search_tenup(r, Query(4885661, "Paris"))
          \/ MobilePrimary(r)
          \/ TokenRefresh(r)
          \/ MobileRefreshRetry(r)
          \/ HeadlessRefresh(r)
    \/ Tick

SpecConcurrent == InitConcurrent /\ [][NextConcurrent]_vars

\* A cache filled by earlier requests for other places.  ExpiredFill of its
\* entries expired one second before the model's clock starts, the others
\* were put UpstreamSeconds before it and are live.
ExpiredFill == 2

FillerKey(i) == cache_key(Query(4885661 + 10 * i, "Nice"))

FillerResult == [count |-> 0, items |-> <<>>, source |-> "tenup_web", total_api |-> 0]

FilledCache(live, expired) ==
    LET n == live + expired
        keys == [i \in 1..n |-> FillerKey(i)]
        arrival(i) == IF i <= expired THEN 0 - CACHE_TTL - 1 ELSE 0 - UpstreamSeconds
    IN [k \in {keys[i] : i \in 1..n} |->
          LET i == CHOOSE j \in 1..n : keys[j] = k
          IN CachePut(EmptyDict, k, FillerResult, arrival(i), arrival(i))[k]]

\* Requests served one after another on a cache near the cap, one over it
\* (with and without expired entries) or exactly at it; the store holds a
\* cookie and no token.
InitCache ==
    /\ INTERNAL_CACHE \in {FilledCache(live, expired) :
                              live \in {CACHE_MAX_ENTRIES + 1, CACHE_MAX_ENTRIES - ExpiredFill},
                              expired \in {0, ExpiredFill}}
    /\ token_file = Absent
    /\ env_token = Absent
    /\ env_cookie = CookieText(TRUE, "env=1")
    /\ cookie_file = Absent
    /\ cookie_file_alt = Absent
    /\ vercel = FALSE
    /\ clock = 0
    /\ task = [r \in Requests |-> IdleTask]

NextCache ==
    \/ \E qry \in Queries : search_tenup(1, qry)
    \/ WebSecondary(1)
    \/ HeadlessRefresh(1)
    \/ WebRetry(1)
    \/ Tick

SpecCache == InitCache /\ [][NextCache]_vars

\* Queries for places around a rounding boundary of the fourth decimal and
\* around the equator, two requests for any two of them.
KeyLats == {4885661, 4885664, 4885666, 4885669, 0 - 1, 0, 1, 4}

KeyQueries ==
    {[Query(lat, q) EXCEPT !.lng = lng] :
        lat \in KeyLats, lng \in {235220, 235224}, q \in {"Paris", "Lyon"}}

InitKey == InitConcurrent

NextKey == \E r \in Requests : \E qry \in KeyQueries : search_tenup(r, qry)

SpecKey == InitKey /\ [][NextKey]_vars

\* Queries whose text fields hold the separators of the key, "|" and ":",
\* two requests for any two of them.
SeparatorQueries ==
    {[Query(lat, q) EXCEPT !.level = level, !.etype = etype] :
        lat \in {4885661, 4885671}, q \in {"Paris", "z", "y|q:z"},
        level \in {"", "x", "x|q:y"}, etype \in {"", "a:b"}}

NextSeparators == \E r \in Requests : \E qry \in SeparatorQueries : search_tenup(r, qry)

SpecSeparators == InitKey /\ [][NextSeparators]_vars

\* ------------------------------------------------------------------------
\* The web fetch alone: one request after another for one place, the site
\* giving the form at once and answering the pages by a script of PageScripts
\* ------------------------------------------------------------------------
\* a script may hold up to MaxScriptPages pages of one new item each
MaxScriptPages == 11

ItemA == WebItem("w1")

ItemB == [id |-> "w2"]

\* originalId comes before id: not the same item as ItemA's "w1"
ItemC == [originalId |-> "w3", id |-> "w1"]

\* an item with neither originalId nor id
ItemN == [libelle |-> "Open"]

ItemLists == {<<>>, <<ItemA>>, <<ItemA, ItemB>>, <<ItemB, ItemA>>, <<ItemA, ItemA>>,
              <<ItemC, ItemA>>, <<ItemA, ItemN>>, <<ItemN>>}

OkPage(cmds) == [status |-> "ok", cmds |-> cmds]

FirstPages ==
    {OkPage(<<Update(nb, items)>>) : nb \in {0, 2, 3}, items \in ItemLists}
    \cup {[status |-> "http_error", cmds |-> <<>>], [status |-> "bad_json", cmds |-> <<>>]}

LaterPages ==
    {OkPage(<<Update(0, items)>>) : items \in ItemLists}
    \cup {[status |-> "http_error", cmds |-> <<>>], [status |-> "bad_json", cmds |-> <<>>]}

\* n pages of one new item each; page 0 reports a total of 25
SteadyScript(n) ==
    [k \in 1..n |-> OkPage(<<Update(IF k = 1 THEN 25 ELSE 0,
                                     <<WebItem("s" \o ToString(k))>>)>>)]

\* a total of 25 reported, ten items on page 0, nothing new on page 1
TenItems == [k \in 1..10 |-> WebItem("t" \o ToString(k))]

ExampleScript == <<OkPage(<<Update(25, TenItems)>>),
                   OkPage(<<Update(25, SubSeq(TenItems, 1, 3))>>)>>

PageScripts ==
    {<<p0, p1, p2>> : p0 \in FirstPages, p1 \in LaterPages, p2 \in LaterPages}
    \cup {SteadyScript(n) : n \in 1..MaxScriptPages}
    \cup {ExampleScript}

InitWeb ==
    /\ Init
    /\ token_file = Absent
    /\ env_token = Absent
    /\ env_cookie = CookieText(TRUE, "env=1")
    /\ cookie_file = Absent
    /\ vercel

NextWeb ==
    \/ search_tenup(1, Query(4885661, "Paris"))
    \/ WebSecondaryOf(1, {Session(<<"form">>)}, PageScripts)

SpecWeb == InitWeb /\ [][NextWeb]_vars

\* ------------------------------------------------------------------------
\* The mobile tier alone: one request after another for one place, the API
\* delivering every list of at most MaxDateItems items, an item having or not
\* a start date (maybe empty), an end date, and a dateDebut and a dateFin
\* (maybe empty)
\* ------------------------------------------------------------------------
MaxDateItems == 2

Merge(a, b) == [x \in DOMAIN a \cup DOMAIN b |-> IF x \in DOMAIN a THEN a[x] ELSE b[x]]

Field(k, v) == DictSet(EmptyDict, k, v)

DateItems ==
    {Merge(Merge(Merge(Merge([id |-> "m1", libelle |-> "Open"], s), e), dd), df) :
        s \in {EmptyDict, Field("startDate", ""), Field("startDate", "2026-03-01")},
        e \in {EmptyDict, Field("endDate", "2026-03-02")},
        dd \in {EmptyDict, Field("dateDebut", EmptyDict),
                Field("dateDebut", [date |-> "2026-02-27"])},
        df \in {EmptyDict, Field("dateFin", [date |-> "2026-02-28"])}}

DateItemLists == UNION {[1..k -> DateItems] : k \in 0..MaxDateItems}

NextDates ==
    \/ search_tenup(1, Query(4885661, "Paris"))
    \/ MobilePrimaryOf(1, DateItemLists)
    \/ TokenRefresh(1)
    \/ MobileRefreshRetry(1)
    \/ HeadlessRefresh(1)

SpecDates == InitConcurrent /\ [][NextDates]_vars

\* ------------------------------------------------------------------------
\* The theme token: one request after another for one place, the negotiation
\* giving one of two theme tokens at once, the site delivering one new item
\* on each of the pages 0, 1 and 2 (of 5 reported) and, before or after the
\* items, settings directives with and without a theme token; a later page
\* may fail
\* ------------------------------------------------------------------------
Settings(token) == [command |-> "settings", theme_token |-> token]

SettingsOnly == [command |-> "settings"]

SettingsLists == {<<>>, <<SettingsOnly>>, <<Settings("theme-2")>>,
                  <<Settings("theme-2"), Settings("theme-3")>>,
                  <<Settings("theme-3"), SettingsOnly>>}

ThemePage(n, before, after) ==
    OkPage(before \o <<Update(IF n = 0 THEN 5 ELSE 0, <<WebItem("p" \o ToString(n))>>)>>
           \o after)

ThemeScripts ==
    {<<ThemePage(0, s0, <<>>), ThemePage(1, s1, <<>>), ThemePage(2, <<>>, s2)>> :
        s0 \in SettingsLists, s1 \in SettingsLists, s2 \in SettingsLists}
    \cup {<<ThemePage(0, s0, <<>>), [status |-> "bad_json", cmds |-> <<>>]>> :
             s0 \in SettingsLists}
    \cup {<<[status |-> "bad_json", cmds |-> <<>>], ThemePage(1, s1, <<>>)>> :
             s1 \in SettingsLists}

ThemeSessions == {Session(<<"form">>),
                  [Session(<<"js_redirect", "form">>) EXCEPT !.theme_token = "theme-0"]}

NextTheme ==
    \/ search_tenup(1, Query(4885661, "Paris"))
    \/ WebSecondaryNegotiated(1, ThemeSessions, ThemeScripts)

SpecTheme == InitWeb /\ [][NextTheme]_vars

\* ------------------------------------------------------------------------
\* The cookie store: requests served one after another under every state of
\* TENUP_COOKIE, cookie.txt and cookies.txt (missing, readable, or there but
\* not readable), with no token, so that every request goes to the web tier
\* ------------------------------------------------------------------------
Unreadable == [state |-> "unreadable"]

InitCookie ==
    /\ INTERNAL_CACHE = EmptyDict
    /\ token_file = Absent
    /\ env_token = Absent
    /\ env_cookie \in {Absent, CookieText(TRUE, "env=1")}
    /\ cookie_file \in {Absent, CookieText(FALSE, "file=1"), Unreadable}
    /\ cookie_file_alt \in {Absent, CookieText(FALSE, "alt=1"), Unreadable}
    /\ vercel = FALSE
    /\ clock = 0
    /\ task = [r \in Requests |-> IdleTask]

NextCookie ==
    \/ \E qry \in Queries : search_tenup(1, qry)
    \/ WebSecondary(1)
    \/ HeadlessRefresh(1)
    \/ WebRetry(1)

SpecCookie == InitCookie /\ [][NextCookie]_vars

\* ------------------------------------------------------------------------
\* The negotiation alone: one request after another, the site answering the
\* GETs of the search page by every script of at most MaxSessionPages
\* responses, and by those that give the form at the sixth GET only
\* ------------------------------------------------------------------------
MaxSessionPages == 5

Undecided == {"redirect", "js_redirect", "other"}

NegotiationSessions ==
    {Session(pages) : pages \in UNION {[1..k -> PageKinds] : k \in 0..MaxSessionPages}}
    \cup {Session(pages \o <<"form">>) : pages \in [1..NEGOTIATE_ITERATIONS -> Undecided]}

NegotiationScripts == {<<OkPage(<<Update(1, <<WebItem("w1")>>)>>)>>}

NextNegotiation ==
    \/ search_tenup(1, Query(4885661, "Paris"))
    \/ WebSecondaryNegotiated(1, NegotiationSessions, NegotiationScripts)
    \/ HeadlessRefresh(1)

SpecNegotiation == InitWeb /\ [][NextNegotiation]_vars

TypeOK ==
    /\ clock \in 0..MaxTicks
    /\ \A r \in Requests :
         task[r].pc \in {"idle", "MobilePrimary", "TokenRefresh", "MobileRefreshRetry",
                         "WebSecondary", "HeadlessRefresh", "WebRetry", "Done", "Failed"}

\* ------------------------------------------------------------------------
\* The log of a request
\* ------------------------------------------------------------------------
MOBILE == "fetch_mobile_api"

REFRESH == "refresh_access_token"

WEB == "fetch_web_ajax"

HEADLESS == "fetch_cookie_header_via_playwright"

SAVE == "save_token_file"

IsAwaited(c) == c.op \in {MOBILE, REFRESH, WEB, HEADLESS}

\* the outbound calls of a request, in the order they were issued; the
\* outcome of the k-th of them is outcomes[k] once it has returned
Awaited(t) == SelectSeq(t.calls, IsAwaited)

Count(t, op) == Cardinality({i \in DOMAIN t.calls : t.calls[i].op = op})

Returned(t, k) == k <= Len(t.outcomes)

Terminal(t) == t.pc \in {"Done", "Failed"}

\* the first outbound call of the request is the mobile fetch and it got 401
FirstMobileUnauthorized(t) ==
    /\ Len(t.outcomes) >= 1
    /\ Awaited(t)[1].op = MOBILE
    /\ t.outcomes[1] = "401"

\* the position of the first web fetch among the outbound calls (0: none)
FirstWeb(t) ==
    LET a == Awaited(t)
        ks == {k \in DOMAIN a : a[k].op = WEB}
    IN IF ks = {} THEN 0 ELSE CHOOSE k \in ks : \A j \in ks : k <= j

\* the web fetch with the loaded cookie (no headless refresh before it)
\* has returned with outcome o
FirstWebWithLoadedCookie(t, o) ==
    LET k == FirstWeb(t) IN
    /\ k > 0
    /\ \A j \in 1..(k - 1) : Awaited(t)[j].op # HEADLESS
    /\ Returned(t, k)
    /\ t.outcomes[k] = o

\* ------------------------------------------------------------------------
\* Claims about the fallback chain of one request
\* ------------------------------------------------------------------------
SecondOnlyAfter(t, op, before) ==
    LET a == Awaited(t) IN
    \A k \in DOMAIN a :
        (a[k].op = op /\ \E j \in 1..(k - 1) : a[j].op = op)
        => /\ k > 1
           /\ a[k - 1].op = before
           /\ t.outcomes[k - 1] = "ok"

\* C1: at every moment of every request, the mobile fetch was issued at most
\* twice, and a second time only right after a token refresh that succeeded;
\* the token refresh at most once; the web fetch at most twice, and a second
\* time only right after a headless cookie refresh that succeeded; the
\* headless cookie refresh at most once.
C1_CallsBounded ==
    \A r \in Requests :
        LET t == task[r] IN
        /\ Count(t, MOBILE) <= 2
        /\ Count(t, REFRESH) <= 1
        /\ Count(t, WEB) <= 2
        /\ Count(t, HEADLESS) <= 1
        /\ SecondOnlyAfter(t, MOBILE, REFRESH)
        /\ SecondOnlyAfter(t, WEB, HEADLESS)

\* C1, witness: a request that is over and used every call it may: two
\* mobile fetches, one token refresh, two web fetches, one headless refresh.
C1_Witness ==
    \E r \in Requests :
        /\ Terminal(task[r])
        /\ Count(task[r], MOBILE) = 2
        /\ Count(task[r], REFRESH) = 1
        /\ Count(task[r], WEB) = 2
        /\ Count(task[r], HEADLESS) = 1

RefreshedAfterUnauthorized(t) ==
    /\ FirstMobileUnauthorized(t)
    /\ Len(t.outcomes) >= 2
    /\ Awaited(t)[2].op = REFRESH
    /\ t.outcomes[2] = "ok"

\* the calls of the refresh-and-retry, in their order
RetryCalls(t, r) ==
    /\ Count(t, REFRESH) = 1
    /\ Count(t, SAVE) = 1
    /\ Count(t, MOBILE) = 2
    /\ Len(t.calls) >= 6
    /\ t.calls[4].op = REFRESH
    /\ t.calls[5] = Call(SAVE, NewToken(r))
    /\ t.calls[6] = Call(MOBILE, NewToken(r)["access_token"])

RetrySucceeded(t) ==
    (Len(t.outcomes) >= 3 /\ t.outcomes[3] = "ok")
    => /\ t.pc = "Done"
       /\ t.status = 200
       /\ t.result["source"] = "mobile_api"

C2_State(r) ==
    LET t == task[r] IN
    /\ (FirstMobileUnauthorized(t) /\ ~Terminal(t)
          /\ Truthy(Get(t.token_data, "refresh_token")))
       => Count(t, REFRESH) = 1
    /\ RefreshedAfterUnauthorized(t)
       => /\ RetryCalls(t, r)
          /\ t.saved \in SaveOutcomes
          /\ (t.pc = "MobileRefreshRetry" /\ t.saved = "ok")
             => token_file = TokenText(NewToken(r))
          /\ RetrySucceeded(t)

C2_Step(r) ==
    (task[r].pc = "MobileRefreshRetry" /\ task'[r].pc = "Done")
    => /\ task[r].cache_key \in DOMAIN INTERNAL_CACHE'
       /\ INTERNAL_CACHE'[task[r].cache_key].data = task'[r].result
       /\ task'[r].result["source"] = "mobile_api"

C3_BotWallRetryOnce ==
    \A r \in Requests :
        LET t == task[r]
            a == Awaited(t)
            k == FirstWeb(t)
        IN FirstWebWithLoadedCookie(t, MsgQueueItRedirect)
           => /\ Count(t, HEADLESS) = 1
              /\ a[k + 1].op = HEADLESS
              /\ ~Returned(t, k + 1) => (t.pc = "HeadlessRefresh" /\ Count(t, WEB) = 1)
              /\ (Returned(t, k + 1) /\ t.outcomes[k + 1] # "ok")
                 => (t.pc = "Failed" /\ Count(t, WEB) = 1)
              /\ (Returned(t, k + 1) /\ t.outcomes[k + 1] = "ok")
                 => /\ Count(t, WEB) = 2
                    /\ a[k + 2] = Call(WEB, FreshCookie)
                    /\ Len(a) = k + 2
                    /\ ~Returned(t, k + 2) => t.pc = "WebRetry"
                    /\ Returned(t, k + 2) => Terminal(t)
                    /\ (Returned(t, k + 2) /\ t.outcomes[k + 2] = "ok") => t.pc = "Done"
                    /\ (Returned(t, k + 2) /\ t.outcomes[k + 2] # "ok") => t.pc = "Failed"

\* C3, witness: the retry met the bot wall a second time and the request is
\* Failed.
C3_Witness ==
    \E r \in Requests :
        LET t == task[r]
            k == FirstWeb(t)
        IN /\ FirstWebWithLoadedCookie(t, MsgQueueItRedirect)
           /\ Returned(t, k + 2)
           /\ t.outcomes[k + 1] = "ok"
           /\ t.outcomes[k + 2] = MsgQueueItRedirect
           /\ t.pc = "Failed"

\* C4 as stated: when the web fetch with the loaded cookie fails because the
\* resolved search page itself is on the anti-bot host, the headless refresh
\* is invoked next, as in the redirect case, and the request is not Failed
\* by that failure.
C4_Original ==
    \A r \in Requests :
        LET t == task[r]
            a == Awaited(t)
            k == FirstWeb(t)
        IN FirstWebWithLoadedCookie(t, MsgQueueItPage)
           => /\ Len(a) > k
              /\ a[k + 1].op = HEADLESS

\* C5 as stated: a request that fails after the headless refresh was invoked
\* (every source exhausted) answers its caller with HTTP 502.
C5_Original ==
    \A r \in Requests :
        (task[r].pc = "Failed" /\ Count(task[r], HEADLESS) >= 1)
        => task[r].status = 502

UnauthorizedNoRefresh(t) ==
    /\ FirstMobileUnauthorized(t)
    /\ Count(t, REFRESH) = 0

\* C6 as stated: a request whose first mobile fetch got 401 and which had no
\* refresh token (no refresh was issued) answers its caller with HTTP 401.
C6_Original ==
    \A r \in Requests :
        (Terminal(task[r]) /\ UnauthorizedNoRefresh(task[r]))
        => task[r].status = 401

\* C6 amended: when the first mobile fetch gets 401 and the loaded bundle has
\* no refresh token, no token refresh and no second mobile fetch is issued
\* and the request goes on to the web tier; its caller gets the web result
\* (200) or, if the web tier fails, 500; no caller ever gets 401.
C6_Amended ==
    \A r \in Requests :
        LET t == task[r]
            a == Awaited(t)
        IN /\ t.status # 401
           /\ (~Terminal(t) /\ FirstMobileUnauthorized(t)
                 /\ ~Truthy(Get(t.token_data, "refresh_token")))
              => UnauthorizedNoRefresh(t)
           /\ UnauthorizedNoRefresh(t)
              => /\ Count(t, MOBILE) = 1
                 /\ Len(a) >= 2
                 /\ a[2].op \in {WEB, HEADLESS}
                 /\ Terminal(t)
                    => \/ t.pc = "Done" /\ t.status = 200
                                        /\ t.result["source"] = "tenup_web"
                       \/ t.pc = "Failed" /\ t.status = 500

\* C6, witness: a caller that got the web result after a 401 without a
\* refresh token.
C6_Witness ==
    \E r \in Requests :
        /\ UnauthorizedNoRefresh(task[r])
        /\ task[r].pc = "Done"
        /\ task[r].status = 200

\* what load_cookie_header returns in the current state of the store
LoadedCookie == load_cookie_header(env_cookie, cookie_file, cookie_file_alt)

MobileTierFailed(t, k) ==
    /\ Returned(t, k)
    /\ Awaited(t)[k].op \in {MOBILE, REFRESH}
    /\ t.outcomes[k] # "ok"

\* C7: no failure of the mobile tier ends the request: a request is Failed
\* only by its web fetch or its headless refresh; after a failed mobile
\* fetch, a failed token refresh or a failed retry (and with no usable
\* bundle at all) the next call is the web fetch when a cookie is loaded,
\* else the headless refresh; and the request is Done with the web result
\* whenever the web fetch with the loaded cookie succeeds.
\* Requests are served one at a time (Spec).
C7_MobileFailuresFallThrough ==
    \A r \in Requests :
        LET t == task[r]
            a == Awaited(t)
        IN /\ t.pc = "Failed" => (Len(a) >= 1 /\ a[Len(a)].op \in {WEB, HEADLESS})
           /\ \A k \in DOMAIN a :
                 MobileTierFailed(t, k)
                 => /\ Len(a) > k
                    /\ a[k + 1].op \in {REFRESH, WEB, HEADLESS}
                    /\ a[k + 1].op = REFRESH => (k = 1 /\ t.outcomes[k] = "401")
                    /\ (a[k + 1].op # REFRESH /\ Len(a) = k + 1 /\ ~Terminal(t))
                       => (a[k + 1].op = WEB <=> Truthy(LoadedCookie))
           /\ (~Terminal(t) /\ t.pc # "idle" /\ ~HasAccessToken(t.token_data))
              => a[1].op \in {WEB, HEADLESS}
           /\ FirstWebWithLoadedCookie(t, "ok")
              => (t.pc = "Done" /\ t.status = 200 /\ t.result["source"] = "tenup_web")

\* C7, witness: 401, refresh, failed retry, then the web fetch succeeds and
\* the request is Done.
C7_Witness ==
    \E r \in Requests :
        /\ task[r].pc = "Done"
        /\ task[r].outcomes = <<"401", "ok", "error", "ok">>
        /\ task[r].result["source"] = "tenup_web"

\* C8: in the web tier, with no cookie loaded the headless refresh is
\* invoked and a web fetch that follows a headless refresh follows a
\* successful one and carries the fresh cookies; the web fetch with the
\* loaded cookie that fails for another reason than the bot wall fails the
\* request with no headless refresh; a web fetch that succeeds ends the
\* request in Done with source "tenup_web".
\* Requests are served one at a time (Spec).
C8_WebTier ==
    \A r \in Requests :
        LET t == task[r]
            a == Awaited(t)
        IN /\ t.pc = "WebSecondary"
              => (Truthy(LoadedCookie) /\ a[Len(a)] = Call(WEB, LoadedCookie))
           /\ (t.pc = "HeadlessRefresh" /\ Count(t, WEB) = 0) => ~Truthy(LoadedCookie)
           /\ \A k \in DOMAIN a :
                 (a[k].op = WEB /\ \E j \in 1..(k - 1) : a[j].op = HEADLESS)
                 => /\ a[k - 1].op = HEADLESS
                    /\ t.outcomes[k - 1] = "ok"
                    /\ a[k].arg = FreshCookie
           /\ \A o \in {MsgInaccessible, MsgTransport} :
                 FirstWebWithLoadedCookie(t, o)
                 => (t.pc = "Failed" /\ t.status = 500 /\ Count(t, HEADLESS) = 0)
           /\ \A k \in DOMAIN a :
                 (a[k].op = WEB /\ Returned(t, k) /\ t.outcomes[k] = "ok")
                 => (t.pc = "Done" /\ t.status = 200 /\ t.result["source"] = "tenup_web")

\* C8, witness: the negotiation failed with the loaded cookie: the request is
\* Failed and no headless refresh was invoked.
C8_Witness ==
    \E r \in Requests :
        /\ FirstWebWithLoadedCookie(task[r], MsgInaccessible)
        /\ task[r].pc = "Failed"
        /\ Count(task[r], HEADLESS) = 0

\* ------------------------------------------------------------------------
\* Claims about the cache
\* ------------------------------------------------------------------------
LiveEntry(key) ==
    /\ key \in DOMAIN INTERNAL_CACHE
    /\ TimeAt(clock) < INTERNAL_CACHE[key].expiry

C9_Step(r, qry) ==
    (/\ task'[r] # task[r]
     /\ task[r].pc \in {"idle", "Done", "Failed"}
     /\ LiveEntry(cache_key(qry))
     /\ search_tenup(r, qry))
    => /\ task'[r].pc = "Done"
       /\ task'[r].status = 200
       /\ task'[r].result = INTERNAL_CACHE[cache_key(qry)].data
       /\ task'[r].calls = <<>>
       /\ INTERNAL_CACHE' = INTERNAL_CACHE
       /\ store' = store

\* C9: a request that arrives while the cache holds an entry for its key
\* that has not expired is Done at once with the payload of that entry, has
\* issued no call (no credential load, no fetch, no refresh) and has changed
\* neither the cache nor the credential store.
C9_CacheHit == [][\A r \in Requests : \A qry \in Queries : C9_Step(r, qry)]_vars

\* C9, witness: a request answered from the cache, which still holds the
\* entry.
C9_Witness ==
    \E r \in Requests :
        /\ task[r].pc = "Done"
        /\ task[r].hit
        /\ task[r].calls = <<>>
        /\ \E key \in DOMAIN INTERNAL_CACHE : INTERNAL_CACHE[key].data = task[r].result

C10_Stored(r) ==
    (task[r].pc \notin {"idle", "Done", "Failed"} /\ task'[r].pc = "Done")
    => /\ task[r].cache_key \in DOMAIN INTERNAL_CACHE'
       /\ INTERNAL_CACHE'[task[r].cache_key].data = task'[r].result

C10_Served(r, qry) ==
    LET key == cache_key(qry) IN
    (/\ task'[r] # task[r]
     /\ task[r].pc \in {"idle", "Done", "Failed"}
     /\ search_tenup(r, qry)
     /\ key \in DOMAIN INTERNAL_CACHE
     /\ TimeAt(clock) < INTERNAL_CACHE[key].put_at + CACHE_TTL)
    => /\ task'[r].pc = "Done"
       /\ task'[r].result = INTERNAL_CACHE[key].data

\* C10 as stated: a request that reaches Done after a miss has its result in
\* the cache under its key at that step, and a request that arrives with a
\* key whose entry was put less than CACHE_TTL seconds ago is Done with the
\* payload of that entry.
C10_Original ==
    [][\A r \in Requests : C10_Stored(r) /\ \A qry \in Queries : C10_Served(r, qry)]_vars

InFlight(t) == t.pc \notin {"idle", "Done", "Failed"}

\* the request r ends in Failed by this step
Fails(r) == InFlight(task[r]) /\ task'[r].pc = "Failed"

\* the request r ends in Done by this step, its last call having succeeded
Succeeds(r) ==
    /\ InFlight(task[r])
    /\ task'[r].pc = "Done"
    /\ task'[r].outcomes[Len(task'[r].outcomes)] = "ok"

C11_OnlySuccessCreates ==
    \A key \in DOMAIN INTERNAL_CACHE' :
        (key \notin DOMAIN INTERNAL_CACHE \/ INTERNAL_CACHE'[key] # INTERNAL_CACHE[key])
        => \E r \in Requests : Succeeds(r) /\ task'[r].cache_key = key

C11_FailureLeavesCache(r) ==
    Fails(r) => /\ INTERNAL_CACHE' = INTERNAL_CACHE
                /\ task'[r].cache_key \notin DOMAIN INTERNAL_CACHE'

C11_NextMisses(r, qry) ==
    (/\ task[r].pc = "Failed"
     /\ task'[r] # task[r]
     /\ cache_key(qry) = task[r].cache_key
     /\ search_tenup(r, qry))
    => /\ ~task'[r].hit
       /\ InFlight(task'[r])
       /\ Len(Awaited(task'[r])) = 1

\* C11: an entry enters the cache or changes only in the step by which a
\* request ends in Done after a call that succeeded; the step by which a
\* request ends in Failed leaves the whole cache as it was, with no entry
\* under the request's key; and the next request with the key of a Failed
\* one is not answered from the cache: it loads the credentials and issues
\* the first call of the fallback chain.
\* Requests are served one at a time (Spec).
C11_FailureNotCached ==
    [][/\ INTERNAL_CACHE' # INTERNAL_CACHE => C11_OnlySuccessCreates
       /\ \A r \in Requests :
            /\ C11_FailureLeavesCache(r)
            /\ \A qry \in Queries : C11_NextMisses(r, qry)]_vars

\* C11, witness: a request has Failed after a web fetch; the cache holds a
\* live entry under another key and none under the key of the request.
C11_Witness ==
    \E r \in Requests :
        /\ task[r].pc = "Failed"
        /\ Count(task[r], WEB) >= 1
        /\ task[r].cache_key \notin DOMAIN INTERNAL_CACHE
        /\ \E key \in DOMAIN INTERNAL_CACHE : TimeAt(clock) < INTERNAL_CACHE[key].expiry

\* the request r arrives by this step and is not answered from the cache
Misses(r) == ~InFlight(task[r]) /\ InFlight(task'[r])

C12_Put(r) ==
    Succeeds(r)
    => /\ task'[r].cache_key \in DOMAIN INTERNAL_CACHE'
       /\ INTERNAL_CACHE'[task'[r].cache_key].data = task'[r].result

C12_Get(r, qry) ==
    LET key == cache_key(qry) IN
    (/\ task'[r] # task[r]
     /\ ~InFlight(task[r])
     /\ key \in DOMAIN INTERNAL_CACHE
     /\ search_tenup(r, qry))
    => IF TimeAt(clock) < INTERNAL_CACHE[key].expiry
       THEN /\ task'[r].pc = "Done"
            /\ task'[r].result = INTERNAL_CACHE[key].data
            /\ key \in DOMAIN INTERNAL_CACHE'
            /\ INTERNAL_CACHE'[key] = INTERNAL_CACHE[key]
       ELSE /\ Misses(r)
            /\ task'[r].purged
            /\ key \notin DOMAIN INTERNAL_CACHE'

C12_NoSweep ==
    \A key \in DOMAIN INTERNAL_CACHE \ DOMAIN INTERNAL_CACHE' :
        /\ ~(TimeAt(clock) < INTERNAL_CACHE[key].expiry)
        /\ \E r \in Requests : Misses(r)

\* C12: the step that ends a request in Done after a successful call puts
\* its payload under its key; a request that arrives for a key that has an
\* entry, at a time before the entry's expiry, is answered with the payload
\* of the entry, which stays as it is; one that arrives at or after the
\* expiry is not answered from the cache and the entry is gone after its
\* arrival; and an entry leaves the cache only in the arrival step of a
\* request that missed, never while it is live and never by the passing of
\* time alone.
C12_PutGetExpire ==
    [][/\ \A r \in Requests : C12_Put(r) /\ \A qry \in Queries : C12_Get(r, qry)
       /\ INTERNAL_CACHE' # INTERNAL_CACHE => C12_NoSweep]_vars

\* C12, witness: a request arrived at the very second of the expiry of the
\* entry under its key: the entry was removed and the request is in flight,
\* while an entry under another key, expired as well, is still in the cache.
C12_Witness ==
    \E r \in Requests :
        /\ InFlight(task[r])
        /\ task[r].purged
        /\ task[r].cache_key \notin DOMAIN INTERNAL_CACHE
        /\ \E key \in DOMAIN INTERNAL_CACHE : INTERNAL_CACHE[key].expiry = task[r].now

\* C13 as stated: the expiry of every cache entry is the time at which the
\* entry was put into the cache plus CACHE_TTL seconds.
C13_Original ==
    \A key \in DOMAIN INTERNAL_CACHE :
        INTERNAL_CACHE[key].expiry = INTERNAL_CACHE[key].put_at + CACHE_TTL

\* ------------------------------------------------------------------------
\* Claims about the size-triggered purge
\* ------------------------------------------------------------------------
\* the size of the cache when the arriving request r tests it: an expired
\* entry under its own key is already deleted
SizeAtPurge(r) == Cardinality(DOMAIN INTERNAL_CACHE \ {task'[r].cache_key})

Expired(key) == TimeAt(clock) > INTERNAL_CACHE[key].expiry

C14_Step(r) ==
    Misses(r)
    => /\ \A key \in DOMAIN INTERNAL_CACHE \ DOMAIN INTERNAL_CACHE' :
            /\ ~(TimeAt(clock) < INTERNAL_CACHE[key].expiry)
            /\ key # task'[r].cache_key
               => (SizeAtPurge(r) > CACHE_MAX_ENTRIES /\ Expired(key))
       /\ SizeAtPurge(r) > CACHE_MAX_ENTRIES
          => \A key \in DOMAIN INTERNAL_CACHE' : ~Expired(key)
       /\ \A key \in DOMAIN INTERNAL_CACHE' :
            key \in DOMAIN INTERNAL_CACHE /\ INTERNAL_CACHE'[key] = INTERNAL_CACHE[key]

\* C14: an arriving request that misses removes entries other than the one
\* under its own key only when the cache holds more than CACHE_MAX_ENTRIES
\* entries, and then it removes the entries whose expiry is past, all of
\* them and only them; no entry that is live is removed, whatever the number
\* of live entries that remain, and the entries that stay are unchanged.
\* Requests are served one at a time on caches of 498 to 503 entries
\* (SpecCache).
C14_PurgeOnlyExpired == [][\A r \in Requests : C14_Step(r)]_vars

\* C14, witness: the purge has acted at second 0, and more than
\* CACHE_MAX_ENTRIES entries, all of them live, remain beside the request in
\* flight.
C14_Witness ==
    \E r \in Requests :
        /\ InFlight(task[r])
        /\ clock = 0
        /\ Cardinality(DOMAIN INTERNAL_CACHE) = CACHE_MAX_ENTRIES + 1
        /\ FillerKey(1) \notin DOMAIN INTERNAL_CACHE
        /\ \A key \in DOMAIN INTERNAL_CACHE : TimeAt(clock) < INTERNAL_CACHE[key].expiry

\* ------------------------------------------------------------------------
\* Claims about concurrent requests
\* ------------------------------------------------------------------------
\* C15 as stated: in no step, whatever the requests in flight, is an entry
\* that has not expired removed, or its payload or its expiry replaced.
C15_Original ==
    [][\A key \in DOMAIN INTERNAL_CACHE :
          TimeAt(clock) < INTERNAL_CACHE[key].expiry
          => /\ key \in DOMAIN INTERNAL_CACHE'
             /\ INTERNAL_CACHE'[key].data = INTERNAL_CACHE[key].data
             /\ INTERNAL_CACHE'[key].expiry = INTERNAL_CACHE[key].expiry]_vars

\* the request r saves the bundle its refresh returned by this step
Saves(r) == task[r].pc = "TokenRefresh" /\ task'[r].pc = "MobileRefreshRetry"

\* C16 as stated: no request overwrites the persisted bundle that another
\* request's refresh produced with the outcome of an exchange of the refresh
\* token it had loaded before that refresh.
C16_Original ==
    [][\A r \in Requests : \A o \in Requests \ {r} :
          Saves(r)
          => ~(/\ Count(task[o], SAVE) = 1
               /\ token_file = TokenText(NewToken(o))
               /\ task[r].token_data # NewToken(o)
               /\ token_file' = TokenText(NewToken(r)))]_vars

\* ------------------------------------------------------------------------
\* Claims about the fingerprint
\* ------------------------------------------------------------------------
\* the decimal digits of a coordinate up to the fourth decimal, with its sign
Digits4(x) == IF x < 0 THEN <<"-", (0 - x) \div 10>> ELSE <<"+", x \div 10>>

OtherFields(qry) == [qry EXCEPT !.lat = 0, !.lng = 0]

\* identical except for the digits of latitude and longitude beyond the
\* fourth decimal
SameUpTo4(q1, q2) ==
    /\ Digits4(q1.lat) = Digits4(q2.lat)
    /\ Digits4(q1.lng) = Digits4(q2.lng)
    /\ OtherFields(q1) = OtherFields(q2)

\* identical normalized fields: coordinates rounded to four decimals, the
\* other fields as they are
SameNormalized(q1, q2) ==
    /\ Round4(q1.lat) = Round4(q2.lat)
    /\ Round4(q1.lng) = Round4(q2.lng)
    /\ OtherFields(q1) = OtherFields(q2)

\* C17 as stated: two requests whose queries are identical except for the
\* digits of latitude and longitude beyond the fourth decimal have the same
\* fingerprint, and so have two requests whose queries have identical
\* normalized fields.
C17_Original ==
    \A r1 \in Requests, r2 \in Requests :
        (InFlight(task[r1]) /\ InFlight(task[r2]))
        => /\ SameUpTo4(task[r1].qry, task[r2].qry)
              => task[r1].cache_key = task[r2].cache_key
           /\ SameNormalized(task[r1].qry, task[r2].qry)
              => task[r1].cache_key = task[r2].cache_key

\* ------------------------------------------------------------------------
\* Claims about the web fetch
\* ------------------------------------------------------------------------
\* the request is Done with the result of a web fetch
WebDone(t) == t.pc = "Done" /\ t.posts # <<>>

\* the items of the result-update directives, from the k-th directive on
RECURSIVE UpdateItems(_, _)
UpdateItems(cmds, k) ==
    IF k > Len(cmds) THEN <<>>
    ELSE (IF Get(cmds[k], "command") = "recherche_tournois_update"
             /\ "items" \in DOMAIN cmds[k]
          THEN cmds[k]["items"] ELSE <<>>) \o UpdateItems(cmds, k + 1)

\* the items the site delivered on page n
PageItems(ajax, n) ==
    IF AjaxAt(ajax, n).status = "ok" THEN UpdateItems(AjaxAt(ajax, n).cmds, 1) ELSE <<>>

\* the items the site delivered on pages 0 .. n - 1, in that order
RECURSIVE Delivered(_, _)
Delivered(ajax, n) ==
    IF n = 0 THEN <<>> ELSE Delivered(ajax, n - 1) \o PageItems(ajax, n - 1)

\* the identity key: originalId if present, else id, else none
IdentityKey(item) ==
    IF "originalId" \in DOMAIN item THEN item["originalId"]
    ELSE IF "id" \in DOMAIN item THEN item["id"]
    ELSE None

HasKey(item) == IdentityKey(item) # None

\* the first occurrence of every identity key in seq, in the order of seq
RECURSIVE FirstOccurrences(_, _)
FirstOccurrences(seq, i) ==
    IF i > Len(seq) THEN <<>>
    ELSE (IF HasKey(seq[i])
             /\ \A j \in 1..(i - 1) : IdentityKey(seq[j]) # IdentityKey(seq[i])
          THEN <<seq[i]>> ELSE <<>>) \o FirstOccurrences(seq, i + 1)

\* C18: in the result of a web fetch no two items share an identity key
\* (originalId if present, else id), and the items that have one are the
\* first occurrences of the keys delivered on the pages submitted, in the
\* order page 0, page 1, ... and, within a page, the order of the page: an
\* item delivered on two pages is there once.
C18_Dedup ==
    \A r \in Requests :
        WebDone(task[r])
        => LET items == task[r].result["items"]
               keyed == SelectSeq(items, HasKey)
           IN /\ \A i \in DOMAIN keyed : \A j \in DOMAIN keyed :
                    i # j => IdentityKey(keyed[i]) # IdentityKey(keyed[j])
              /\ keyed = FirstOccurrences(Delivered(task[r].ajax, Len(task[r].posts)), 1)

\* C18, witness: page 0 delivered w1, page 1 delivered w2 and w1 again, and
\* the result holds w1 and w2 in that order, once each.
C18_Witness ==
    \E r \in Requests :
        /\ WebDone(task[r])
        /\ PageItems(task[r].ajax, 0) = <<ItemA>>
        /\ PageItems(task[r].ajax, 1) = <<ItemB, ItemA>>
        /\ Len(task[r].posts) >= 2
        /\ task[r].result["items"] = <<ItemA, ItemB>>

NoKey(item) == ~HasKey(item)

\* C19 as stated: the items without originalId and without id that the site
\* delivered on the pages submitted are all in the result of the web fetch,
\* and the count of the result counts them.
C19_Original ==
    \A r \in Requests :
        WebDone(task[r])
        => /\ SelectSeq(task[r].result["items"], NoKey)
                = SelectSeq(Delivered(task[r].ajax, Len(task[r].posts)), NoKey)
           /\ task[r].result["count"] = Len(task[r].result["items"])

\* the number of items collected from pages 0 .. k - 1: the distinct
\* non-empty keys delivered on them
CountAfter(ajax, k) ==
    LET d == Delivered(ajax, k)
    IN Cardinality({ItemId(d[i]) : i \in DOMAIN d} \ {""})

\* the total reported on page 0 (0 if page 0 reported none)
RECURSIVE ReportedBy(_, _, _)
ReportedBy(cmds, k, total) ==
    IF k > Len(cmds) THEN total
    ELSE ReportedBy(cmds, k + 1,
                    IF Get(cmds[k], "command") = "recherche_tournois_update"
                    THEN (IF "nb_results" \in DOMAIN cmds[k]
                          THEN cmds[k]["nb_results"] ELSE 0)
                    ELSE total)

TotalReported(ajax) ==
    IF AjaxAt(ajax, 0).status = "ok" THEN ReportedBy(AjaxAt(ajax, 0).cmds, 1, 0) ELSE 0

\* a reason not to submit page k (k >= 1), pages 0 .. k - 1 being submitted
StopBefore(ajax, k) ==
    \/ CountAfter(ajax, k) >= TotalReported(ajax)
    \/ k >= 2 /\ CountAfter(ajax, k) = CountAfter(ajax, k - 1)
    \/ k >= 2 /\ AjaxAt(ajax, k - 1).status # "ok"
    \/ k >= max_pages

\* C20: a web fetch that returns a result has submitted the pages 0, 1, ...,
\* n - 1 in that order, page 0 by the search trigger and the others by the
\* page trigger; it went on to page k (k >= 1) only while the count collected
\* was below the total reported on page 0, the page before (if not page 0)
\* had succeeded and had yielded a new item, and k < max_pages; it stopped
\* at the first page where one of these fails, so n <= max_pages; the
\* result holds the count collected and the total reported.  For the source
\* that reports 25, delivers ten items on page 0 and nothing new on page 1,
\* pages 0 and 1 are submitted and the result has count 10, total_api 25.
C20_Pagination ==
    \A r \in Requests :
        WebDone(task[r])
        => LET ajax == task[r].ajax
               posts == task[r].posts
               n == Len(posts)
           IN /\ \A i \in DOMAIN posts :
                    /\ posts[i].page = i - 1
                    /\ posts[i].trigger = IF i = 1 THEN "submit_main" ELSE "submit_page"
              /\ n <= max_pages
              /\ \A k \in 1..(n - 1) : ~StopBefore(ajax, k)
              /\ StopBefore(ajax, n)
              /\ task[r].result["count"] = CountAfter(ajax, n)
              /\ task[r].result["total_api"] = TotalReported(ajax)
              /\ ajax = ExampleScript
                 => (n = 2 /\ task[r].result["count"] = 10
                           /\ task[r].result["total_api"] = 25)

\* C20, witness: the source reported 25, delivered ten items on page 0 and
\* nothing new on page 1: pages 0 and 1 were submitted and the result has
\* count 10 and total_api 25.
C20_Witness ==
    \E r \in Requests :
        /\ WebDone(task[r])
        /\ task[r].ajax = ExampleScript
        /\ Len(task[r].posts) = 2
        /\ task[r].posts[2].page = 1
        /\ task[r].result["count"] = 10
        /\ task[r].result["total_api"] = 25

\* the request failed in a web fetch that had submitted a page
WebFailed(t) == t.pc = "Failed" /\ t.posts # <<>>

\* the last page submitted (page n - 1 >= 1) failed: transport error or
\* non-2xx status, or a body that does not parse
LaterPageFailed(t) ==
    /\ Len(t.posts) >= 2
    /\ AjaxAt(t.ajax, Len(t.posts) - 1).status # "ok"

\* C21: a web fetch in which the request for a page n >= 1 fails returns a
\* result all the same: the items collected on pages 0 .. n - 1, their number
\* as count, and the total reported on page 0 as total_api; the only web
\* fetch that fails after submitting a page is one whose page 0 failed.
C21_PartialResults ==
    \A r \in Requests :
        /\ (task[r].pc \in {"Done", "Failed"} /\ LaterPageFailed(task[r]))
           => /\ task[r].pc = "Done"
              /\ task[r].status = 200
              /\ task[r].result["items"]
                    = FirstOccurrences(Delivered(task[r].ajax, Len(task[r].posts) - 1), 1)
              /\ task[r].result["count"] = Len(task[r].result["items"])
              /\ task[r].result["total_api"] = TotalReported(task[r].ajax)
        /\ WebFailed(task[r])
           => /\ Len(task[r].posts) = 1
              /\ AjaxAt(task[r].ajax, 0).status = "http_error"

\* C21, witness: page 0 reported 3 and delivered w1 and w2, page 1 failed,
\* and the request is Done with those two items and total_api 3.
C21_Witness ==
    \E r \in Requests :
        /\ task[r].pc = "Done"
        /\ LaterPageFailed(task[r])
        /\ Len(task[r].posts) = 2
        /\ task[r].result["items"] = <<ItemA, ItemB>>
        /\ task[r].result["count"] = 2
        /\ task[r].result["total_api"] = 3

\* ------------------------------------------------------------------------
\* Claims about the negotiator
\* ------------------------------------------------------------------------
\* the response to the i-th GET of the search page
Response(t, i) == IF i <= Len(t.pages) THEN t.pages[i] ELSE "other"

\* the iterations, among the five, whose response ends the negotiation
Deciding(t) ==
    {i \in 1..NEGOTIATE_ITERATIONS :
        Response(t, i) \in {"form", "redirect_queueit", "page_queueit", "transport_error"}}

FirstDeciding(t) == CHOOSE i \in Deciding(t) : \A j \in Deciding(t) : i <= j

BotWallDetected == {MsgQueueItRedirect, MsgQueueItPage}

\* C22: a negotiation issues at most 5 GETs of the search page and ends: with
\* the two tokens at the first iteration whose page holds them, with the bot
\* wall error, and no further GET, at the first iteration that sees a redirect
\* to the anti-bot host or a page resolved on it, and with the negotiation
\* failure after the 5th iteration otherwise; a redirect to another host and
\* a client-side redirect each take one of the five iterations.  (A GET that
\* gets no response ends the negotiation with that transport error.)
C22_Negotiator ==
    \A r \in Requests :
        LET t == task[r]
            f == t.form_state
        IN f # NoResult
           => /\ f.gets <= NEGOTIATE_ITERATIONS
              /\ IF Deciding(t) = {}
                 THEN ~f.ok /\ f.err = MsgInaccessible /\ f.gets = NEGOTIATE_ITERATIONS
                 ELSE LET i == FirstDeciding(t)
                          kind == Response(t, i)
                      IN /\ f.gets = i
                         /\ kind = "form"
                            => f.ok /\ f.form_build_id = "form-1" /\ f.theme_token = "theme-1"
                         /\ kind \in {"redirect_queueit", "page_queueit"}
                            => ~f.ok /\ f.err \in BotWallDetected
                         /\ kind = "transport_error" => ~f.ok /\ f.err = MsgTransport
              /\ ~f.ok => t.outcomes[Len(t.outcomes)] \in {f.err, "unsupported"}

\* C22, witness: a redirect, a client-side redirect and three pages without
\* tokens took the five iterations; the form offered to a sixth GET was never
\* fetched and the request failed with the negotiation failure.
C22_Witness ==
    \E r \in Requests :
        /\ task[r].pc = "Failed"
        /\ task[r].pages = <<"redirect", "js_redirect", "other", "other", "other", "form">>
        /\ ~task[r].form_state.ok
        /\ task[r].form_state.err = MsgInaccessible
        /\ task[r].form_state.gets = 5

\* ------------------------------------------------------------------------
\* Claims about the credential store
\* ------------------------------------------------------------------------
\* the request r arrives and misses the cache by this step: its credentials
\* are loaded from the store as it is before the step
Loads(r) == ~InFlight(task[r]) /\ InFlight(task'[r])

\* C23 as stated: when the environment override and the token file both hold
\* a valid bundle, the bundle a request loads is the one of the override.
C23_Original ==
    [][\A r \in Requests :
          (Loads(r) /\ env_token.state = "ok" /\ token_file.state = "ok")
          => task'[r].token_data = env_token.data]_vars

\* C23, amended: the bundle a request loads is the one of the token file
\* when the file can be read, the one of the environment override when the
\* file is missing or cannot be read and the override is set, and none
\* otherwise.
C23_FileFirst ==
    [][\A r \in Requests :
          Loads(r)
          => /\ token_file.state = "ok" => task'[r].token_data = token_file.data
             /\ (token_file.state # "ok" /\ env_token.state = "ok")
                => task'[r].token_data = env_token.data
             /\ (token_file.state # "ok" /\ env_token.state # "ok")
                => task'[r].token_data = NoToken]_vars

\* C23, witness: the override and the file both hold a bundle, and the
\* request in flight presented the access token of the file's bundle.
C23_Witness ==
    \E r \in Requests :
        /\ task[r].pc = "MobilePrimary"
        /\ env_token = TokenText(Bundle("accessE", "refreshE"))
        /\ token_file = TokenText(Bundle("access0", "refresh0"))
        /\ task[r].token_data = Bundle("access0", "refresh0")
        /\ task[r].calls[Len(task[r].calls)] = Call(MOBILE, "access0")

\* the header of the first of cookie.txt and cookies.txt that can be read
PersistedCookie ==
    IF cookie_file.state = "ok" THEN StripCookie(cookie_file)
    ELSE IF cookie_file_alt.state = "ok" THEN StripCookie(cookie_file_alt)
    ELSE None

\* the request r issues the headless refresh by this step
IssuesHeadless(r) == task[r].pc # "HeadlessRefresh" /\ task'[r].pc = "HeadlessRefresh"

\* the request has issued its first web fetch without a headless refresh
FirstWebIssued(t) == InFlight(t) /\ Count(t, WEB) = 1 /\ Count(t, HEADLESS) = 0

\* C24 as stated: the cookie header a request loads, and presents in its
\* first web fetch, is the one of the environment override if set, else the
\* one of the persisted cookie file; it is absent only when no override is
\* set and no persisted cookie file can be read; and the headless refresh is
\* issued only when no header was loaded or the web fetch with the loaded
\* header was rejected by the bot wall.
C24_Original ==
    [][\A r \in Requests :
          /\ Loads(r)
             => /\ task'[r].cookie_header
                      = IF env_cookie.state = "ok" THEN StripCookie(env_cookie)
                        ELSE PersistedCookie
                /\ task'[r].cookie_header = None
                   => /\ env_cookie.state # "ok"
                      /\ cookie_file.state # "ok"
                      /\ cookie_file_alt.state # "ok"
          /\ FirstWebIssued(task'[r])
             => Call(WEB, task'[r].cookie_header) \in {task'[r].calls[i] :
                                                          i \in DOMAIN task'[r].calls}
          /\ IssuesHeadless(r)
             => \/ task'[r].cookie_header = None
                \/ /\ task[r].pc = "WebSecondary"
                   /\ task'[r].outcomes[Len(task'[r].outcomes)] \in BotWallDetected]_vars

\* the last headless refresh succeeded and its header is the one persisted
RefreshPersisted == cookie_file_alt = CookieText(FALSE, FreshCookie)

\* C29 as stated: once a headless refresh has persisted its header, a request
\* that arrives with no environment cookie override loads that header, and
\* presents it in its web fetch without another headless refresh.
C29_Original ==
    [][\A r \in Requests :
          (Loads(r) /\ RefreshPersisted /\ env_cookie.state # "ok")
          => /\ task'[r].cookie_header = FreshCookie
             /\ task'[r].calls[Len(task'[r].calls)] = Call(WEB, FreshCookie)]_vars

\* ------------------------------------------------------------------------
\* Claims about the date normalization
\* ------------------------------------------------------------------------
\* the request is Done with the items of a mobile fetch
MobileDone(t) ==
    /\ t.pc = "Done"
    /\ ~t.hit
    /\ t.calls[Len(t.calls)].op = MOBILE

\* C25 as stated: every item with a start date and no dateDebut gains
\* dateDebut = {date: startDate}, and likewise dateFin from the end date; no
\* field the item had is removed or changed; normalizing twice gives what
\* normalizing once gives.
C25_Original ==
    \A r \in Requests :
        MobileDone(task[r])
        => LET d == task[r].delivered
               n == task[r].result["items"]
           IN /\ Len(n) = Len(d)
              /\ \A i \in DOMAIN d :
                    /\ (Truthy(Get(d[i], "startDate")) /\ "dateDebut" \notin DOMAIN d[i])
                       => n[i]["dateDebut"] = [date |-> d[i]["startDate"]]
                    /\ (Truthy(Get(d[i], "endDate")) /\ "dateFin" \notin DOMAIN d[i])
                       => n[i]["dateFin"] = [date |-> d[i]["endDate"]]
                    /\ \A k \in DOMAIN d[i] : k \in DOMAIN n[i] /\ n[i][k] = d[i][k]
              /\ normalize_dates(n) = n

\* the normalization fills the canonical field k of the item from its field
\* from: from is not empty and k is missing or empty
Fills(item, from, k) == Truthy(Get(item, from)) /\ ~Filled(item, k)

Canonical(item, from, k, out) ==
    IF Fills(item, from, k) THEN out[k] = [date |-> item[from]]
    ELSE (k \in DOMAIN out) = (k \in DOMAIN item)

\* C25, amended: every item with a non-empty start date whose dateDebut is
\* missing or empty gains dateDebut = {date: startDate}, and likewise dateFin
\* from the end date; no field is removed, no other field is added, and no
\* field is changed but a dateDebut or dateFin that was empty; normalizing
\* twice gives what normalizing once gives.
C25_Normalized ==
    \A r \in Requests :
        MobileDone(task[r])
        => LET d == task[r].delivered
               n == task[r].result["items"]
           IN /\ Len(n) = Len(d)
              /\ \A i \in DOMAIN d :
                    /\ Canonical(d[i], "startDate", "dateDebut", n[i])
                    /\ Canonical(d[i], "endDate", "dateFin", n[i])
                    /\ DOMAIN n[i] \subseteq DOMAIN d[i] \cup {"dateDebut", "dateFin"}
                    /\ \A k \in DOMAIN d[i] :
                          /\ k \in DOMAIN n[i]
                          /\ (k \notin {"dateDebut", "dateFin"} \/ Filled(d[i], k))
                             => n[i][k] = d[i][k]
              /\ normalize_dates(n) = n

\* C25, witness: of two items delivered, the one with a start date and no
\* dateDebut gained it and kept its other fields, and the one that had a
\* dateDebut and a dateFin is as it was.
C25_Witness ==
    \E r \in Requests :
        /\ MobileDone(task[r])
        /\ task[r].delivered
              = <<[id |-> "m1", libelle |-> "Open", startDate |-> "2026-03-01"],
                  [id |-> "m1", libelle |-> "Open", startDate |-> "2026-03-01",
                   endDate |-> "2026-03-02", dateDebut |-> [date |-> "2026-02-27"],
                   dateFin |-> [date |-> "2026-02-28"]]>>
        /\ task[r].result["items"]
              = <<[id |-> "m1", libelle |-> "Open", startDate |-> "2026-03-01",
                   dateDebut |-> [date |-> "2026-03-01"]],
                  task[r].delivered[2]>>

\* ------------------------------------------------------------------------
\* Claims about the theme token
\* ------------------------------------------------------------------------
\* the directives received on pages 0 .. n - 1, in the order received
RECURSIVE Received(_, _)
Received(ajax, n) ==
    IF n = 0 THEN <<>>
    ELSE Received(ajax, n - 1)
         \o (IF AjaxAt(ajax, n - 1).status = "ok" THEN AjaxAt(ajax, n - 1).cmds ELSE <<>>)

CarriesToken(cmd) == Get(cmd, "command") = "settings" /\ "theme_token" \in DOMAIN cmd

\* the theme token of the most recent settings directive that carried one
\* among the directives cmds, or else the token negotiated
LatestToken(cmds, negotiated) ==
    LET ks == {k \in DOMAIN cmds : CarriesToken(cmds[k])}
    IN IF ks = {} THEN negotiated
       ELSE cmds[CHOOSE k \in ks : \A j \in ks : j <= k]["theme_token"]

\* C26: page 0 is submitted by the search trigger, with the search-submit
\* fields and the theme token the negotiation gave; every page n >= 1 is
\* submitted by the page trigger, without the search-submit fields, and with
\* the theme token of the most recent settings directive received on pages
\* 0 .. n - 1 that carried one, or the negotiated token if none did.
C26_ThemeToken ==
    \A r \in Requests :
        (task[r].posts # <<>> /\ task[r].form_state # NoResult)
        => LET posts == task[r].posts
               negotiated == task[r].form_state.theme_token
           IN \A i \in DOMAIN posts :
                 /\ posts[i].page = i - 1
                 /\ i = 1 => /\ posts[i].trigger = "submit_main"
                             /\ posts[i].fields = {"op", "submit_main"}
                             /\ posts[i].theme_token = negotiated
                 /\ i > 1 => /\ posts[i].trigger = "submit_page"
                             /\ posts[i].fields = {"submit_page"}
                             /\ posts[i].theme_token
                                   = LatestToken(Received(task[r].ajax, i - 1), negotiated)

\* C26, witness: the negotiation gave theme-0; page 0 carried settings with
\* theme-2 and then theme-3, page 1 settings without a token, page 2 settings
\* with theme-2 after its items: the pages 0 .. 3 were submitted with
\* theme-0, theme-3, theme-3 and theme-2.
C26_Witness ==
    \E r \in Requests :
        /\ WebDone(task[r])
        /\ task[r].form_state # NoResult
        /\ task[r].ajax = <<ThemePage(0, <<Settings("theme-2"), Settings("theme-3")>>, <<>>),
                            ThemePage(1, <<SettingsOnly>>, <<>>),
                            ThemePage(2, <<>>, <<Settings("theme-2")>>)>>
        /\ Len(task[r].posts) = 4
        /\ [i \in 1..4 |-> task[r].posts[i].theme_token]
              = <<"theme-0", "theme-3", "theme-3", "theme-2">>

\* ------------------------------------------------------------------------
\* Claims about termination
\* ------------------------------------------------------------------------
\* C27: if every outbound call returns in the end, every request that is in
\* an intermediate state of the orchestrator reaches Done or Failed.
C27_Terminates ==
    \A r \in Requests : InFlight(task[r]) ~> Terminal(task[r])

\* C27, witness: a request has ended after the longest chain of calls: the
\* mobile fetch, the token refresh, the mobile retry, the web fetch, the
\* headless refresh and the web retry.
C27_Witness ==
    \E r \in Requests :
        /\ Terminal(task[r])
        /\ Len(task[r].outcomes) = 6
        /\ [k \in 1..6 |-> Awaited(task[r])[k].op]
              = <<MOBILE, REFRESH, MOBILE, WEB, HEADLESS, WEB>>

\* ------------------------------------------------------------------------
\* Claims about the fingerprint and the separators of the key
\* ------------------------------------------------------------------------
\* C28 as stated: two requests whose queries differ in a normalized field
\* (rounded latitude, rounded longitude, radius, locality text, date_start,
\* date_end, level, event type) have different fingerprints, also when the
\* text fields hold "|" or ":"; so neither is served the entry of the other.
C28_Original ==
    \A r1 \in Requests, r2 \in Requests :
        (InFlight(task[r1]) /\ InFlight(task[r2])
           /\ ~SameNormalized(task[r1].qry, task[r2].qry))
        => task[r1].cache_key # task[r2].cache_key

\* ------------------------------------------------------------------------
\* Claims about a page 0 that does not parse
\* ------------------------------------------------------------------------
\* the web fetch of the request got, for page 0, a 2xx response whose body
\* is not a list of directives
PageZeroMalformed(t) == t.posts # <<>> /\ AjaxAt(t.ajax, 0).status = "bad_json"

\* C30 as stated: a request whose web fetch got a page 0 that does not parse
\* does not end in Done, is not answered with an empty result (count 0,
\* total_api 0), and leaves no entry for its fingerprint in the cache.
C30_Original ==
    \A r \in Requests :
        (Terminal(task[r]) /\ PageZeroMalformed(task[r]))
        => /\ task[r].pc # "Done"
           /\ task[r].status # 200
           /\ task[r].cache_key \notin DOMAIN INTERNAL_CACHE

=============================================================================
